---- MODULE Spec2Model ----
(***************************************************************************)
(* ipcalc (src/src/main.rs): an IPv4/CIDR calculator.  One run of main is  *)
(* modelled as a sequence of steps over the locals of main.                *)
(*                                                                         *)
(* Representation.  A Rust unsigned integer of width w (u32, u128, i64) is *)
(* a sequence of w bits, most significant bit first, so that no value      *)
(* depends on the width of the model checker's own integers.  A u8 is a    *)
(* natural number 0..255.  A Rust String / &str is a sequence of           *)
(* one-character strings.                                                  *)
(***************************************************************************)
EXTENDS Integers, Sequences, FiniteSets, TLC

(***************************************************************************)
(* Bounds of the explored inputs.                                          *)
(***************************************************************************)
\* prefix texts "0" .. "MaxPrefixText" are tried (beyond 32: rejected ones)
MaxPrefixText == 36
\* command lines of 0 .. MaxArgs arguments are tried
MaxArgs == 2

(***************************************************************************)
(* Fixed-width integers as bit sequences (index 1 = most significant bit). *)
(***************************************************************************)
Pow2(n) == 2 ^ n

\* the w-bit representation of a small natural number n (n < 2^30)
NatToBits(n, w) ==
    [i \in 1..w |-> IF w - i > 30 THEN 0 ELSE (n \div Pow2(w - i)) % 2]

RECURSIVE BitsToNat(_)
\* the value of a short bit sequence (used for octets only)
BitsToNat(b) ==
    IF Len(b) = 0 THEN 0
    ELSE 2 * BitsToNat(SubSeq(b, 1, Len(b) - 1)) + b[Len(b)]

\* Rust `!x`
NotBits(v) == [i \in 1..Len(v) |-> 1 - v[i]]
\* Rust `a & b`
AndBits(a, b) == [i \in 1..Len(a) |-> a[i] * b[i]]
\* Rust `a | b`
OrBits(a, b) == [i \in 1..Len(a) |-> IF a[i] + b[i] > 0 THEN 1 ELSE 0]
\* x << n for 0 <= n < width: bits shifted out at the top are lost
ShlBits(v, n) == [i \in 1..Len(v) |-> IF i + n <= Len(v) THEN v[i + n] ELSE 0]
\* Rust `x as i64` / `x as u32` on a wider value: keep the low w bits
Truncate(v, w) == SubSeq(v, Len(v) - w + 1, Len(v))
\* zero-extension of an unsigned value to w bits
ZeroExtend(v, w) == [i \in 1..w |-> IF i <= w - Len(v) THEN 0 ELSE v[i - (w - Len(v))]]

RECURSIVE AddRange(_, _, _, _, _)
\* ripple-carry addition of bits lo..hi of a and b with carry c into bit hi:
\* the less significant half first, its carry into the more significant half
AddRange(a, b, lo, hi, c) ==
    IF lo = hi
    THEN LET s == a[lo] + b[lo] + c
         IN  [bits |-> <<s % 2>>, carry |-> s \div 2]
    ELSE LET mid == (lo + hi) \div 2
             low == AddRange(a, b, mid + 1, hi, c)
         IN  IF low.carry = 0
             THEN LET high == AddRange(a, b, lo, mid, 0)
                  IN  [bits |-> high.bits \o low.bits, carry |-> high.carry]
             ELSE LET high == AddRange(a, b, lo, mid, 1)
                  IN  [bits |-> high.bits \o low.bits, carry |-> high.carry]

\* a + b + c on equal-width values, as [bits, carry]
AddFrom(a, b, c) == AddRange(a, b, 1, Len(a), c)

(***************************************************************************)
(* Rust arithmetic that can overflow.  Each result is [panic, val]: with   *)
(* overflow checks (debug profile) an overflow panics, without them        *)
(* (release profile) it wraps, and a shift amount is masked to the width.  *)
(***************************************************************************)
Ok(v) == [panic |-> FALSE, val |-> v]
Panic == [panic |-> TRUE, val |-> <<>>]

\* a + b on equal-width unsigned values
AddChecked(a, b, checks) ==
    LET r == AddFrom(a, b, 0)
    IN  IF r.carry = 1 /\ checks THEN Panic ELSE Ok(r.bits)

\* a - b on equal-width unsigned values (a + !b + 1; no carry out = borrow)
SubChecked(a, b, checks) ==
    LET r == AddFrom(a, NotBits(b), 1)
    IN  IF r.carry = 0 /\ checks THEN Panic ELSE Ok(r.bits)

\* v << n on a value of width Len(v)
ShlChecked(v, n, checks) ==
    IF n < Len(v) THEN Ok(ShlBits(v, n))
    ELSE IF checks THEN Panic
    ELSE Ok(ShlBits(v, n % Len(v)))

\* a - b on u8
SubU8(a, b, checks) ==
    IF a >= b THEN [panic |-> FALSE, val |-> a - b]
    ELSE IF checks THEN [panic |-> TRUE, val |-> 0]
    ELSE [panic |-> FALSE, val |-> a - b + 256]

(***************************************************************************)
(* Strings.                                                                *)
(***************************************************************************)
DigitChars == <<"0", "1", "2", "3", "4", "5", "6", "7", "8", "9">>
IsDigit(c) == \E i \in 1..10 : DigitChars[i] = c
DigitVal(c) == (CHOOSE i \in 1..10 : DigitChars[i] = c) - 1

RECURSIVE Dec(_)
\* Display of an unsigned integer: decimal, no padding
Dec(n) == IF n < 10 THEN <<DigitChars[n + 1]>>
          ELSE Dec(n \div 10) \o <<DigitChars[(n % 10) + 1]>>

RECURSIVE Split(_, _)
\* str::split(sep): the pieces between separators; always at least one piece
Split(s, sep) ==
    IF \A i \in 1..Len(s) : s[i] # sep THEN <<s>>
    ELSE LET k == CHOOSE i \in 1..Len(s) :
                      s[i] = sep /\ \A j \in 1..(i - 1) : s[j] # sep
         IN  <<SubSeq(s, 1, k - 1)>> \o Split(SubSeq(s, k + 1, Len(s)), sep)

RECURSIVE Join(_, _)
\* [String]::join(sep)
Join(strs, sep) ==
    IF Len(strs) = 0 THEN <<>>
    ELSE IF Len(strs) = 1 THEN strs[1]
    ELSE strs[1] \o sep \o Join(Tail(strs), sep)

\* format!("{:08b}", o) for a u8
Bin8(o) == [i \in 1..8 |-> IF (o \div Pow2(8 - i)) % 2 = 1 THEN "1" ELSE "0"]

RECURSIVE DivRange(_, _, _, _)
\* long division by ten of bits lo..hi of v, most significant bit first, with
\* remainder r (0..9) carried in: [q: quotient bits, r: remainder]
DivRange(v, lo, hi, r) ==
    IF lo = hi
    THEN LET t == 2 * r + v[lo]
         IN  [q |-> <<IF t >= 10 THEN 1 ELSE 0>>, r |-> IF t >= 10 THEN t - 10 ELSE t]
    ELSE LET mid == (lo + hi) \div 2
             high == DivRange(v, lo, mid, r)
         IN  CASE high.r \in 0..9 ->
                  LET low == DivRange(v, mid + 1, hi, high.r)
                  IN  [q |-> high.q \o low.q, r |-> low.r]

DivMod10(v) == DivRange(v, 1, Len(v), 0)

IsZero(v) == \A i \in 1..Len(v) : v[i] = 0

RECURSIVE DecBits(_)
\* Display of a non-negative fixed-width integer: decimal, no padding
DecBits(v) ==
    LET d == DivMod10(v)
    IN  IF IsZero(d.q) THEN <<DigitChars[d.r + 1]>>
        ELSE DecBits(d.q) \o <<DigitChars[d.r + 1]>>

\* Display of an i64 (two's complement)
DisplayI64(v) ==
    IF v[1] = 0 THEN DecBits(v)
    ELSE <<"-">> \o DecBits(AddFrom(NotBits(v), NatToBits(1, 64), 0).bits)

(***************************************************************************)
(* The state: the command line, the build profile, and the locals of main. *)
(***************************************************************************)
VARIABLES
    argv,             \* the command-line arguments after the program name
    overflow_checks,  \* TRUE: debug profile (overflow panics); FALSE: release
    pc,               \* the position in main
    input,            \* args.input
    parts,            \* parts: Vec<&str>
    ip,               \* ip: Ipv4Addr, as its four octets
    prefix,           \* prefix: u8
    ip_u, mask, wildcard, network, broadcast,   \* u32
    hosts_net,        \* i64
    host_min, host_max,                         \* u32
    class, is_private,
    bins,             \* ip_bin, mask_bin, ... broadcast_bin
    stdout, stderr,   \* the lines written so far
    exit_code         \* the process exit status once pc = "exited"

env == <<argv, overflow_checks>>
parsed == <<input, parts, ip, prefix>>
nets == <<ip_u, mask, wildcard, network, broadcast>>
hosts == <<hosts_net, host_min, host_max>>
classes == <<class, is_private>>
io == <<stdout, stderr, exit_code>>
vars == <<env, pc, parsed, nets, hosts, classes, bins, io>>

(***************************************************************************)
(* The functions of main.rs.                                               *)
(***************************************************************************)
\* u32::to_be_bytes
to_be_bytes(x) == [k \in 1..4 |-> BitsToNat(SubSeq(x, 8 * (k - 1) + 1, 8 * k))]
\* u32::from_be_bytes
from_be_bytes(o) ==
    NatToBits(o[1], 8) \o NatToBits(o[2], 8) \o NatToBits(o[3], 8) \o NatToBits(o[4], 8)

ipv4_to_u32(a) == from_be_bytes(a)
u32_to_ipv4(x) == to_be_bytes(x)

\* Display of an Ipv4Addr
DisplayIpv4(a) == Join(<<Dec(a[1]), Dec(a[2]), Dec(a[3]), Dec(a[4])>>, <<".">>)

\* mutant: no guard for prefix 0, the shift by 32 is taken
mask_from_prefix_noguard(p) ==
    LET d == SubU8(32, p, overflow_checks)
    IN  IF d.panic THEN Panic
        ELSE ShlChecked(NotBits(NatToBits(0, 32)), d.val, overflow_checks)

mask_from_prefix(p) ==
    IF p = 0 THEN Ok(NatToBits(0, 32))
    ELSE LET d == SubU8(32, p, overflow_checks)
         IN  IF d.panic THEN Panic
             ELSE ShlChecked(NotBits(NatToBits(0, 32)), d.val, overflow_checks)

\* mutant: the complement is forgotten
wildcard_from_mask_id(m) == m

wildcard_from_mask(m) == NotBits(m)

to_binary(octets) ==
    Join(<<Bin8(octets[1]), Bin8(octets[2]), Bin8(octets[3]), Bin8(octets[4])>>, <<" ">>)

\* str::split_at(mid): panics when mid is past the end
split_at(s, mid) ==
    IF mid > Len(s) THEN Panic
    ELSE Ok(<<SubSeq(s, 1, mid), SubSeq(s, mid + 1, Len(s))>>)

RECURSIVE SplitLoop(_, _, _, _)
\* the for loop of binary_octets_with_split from octet index i (0-based) on
SplitLoop(octets, i, split_bit, split_offset) ==
    IF i > 3 THEN Ok(<<>>)
    ELSE LET s == Bin8(octets[i + 1])
             rest == SplitLoop(octets, i + 1, split_bit, split_offset)
         IN  IF i = split_bit /\ split_offset # 0
             THEN LET ab == split_at(s, split_offset)
                  IN  IF ab.panic \/ rest.panic THEN Panic
                      ELSE Ok(<<ab.val[1], ab.val[2]>> \o rest.val)
             ELSE IF rest.panic THEN Panic ELSE Ok(<<s>> \o rest.val)

\* mutant: the split offset is counted from the wrong end of the octet
binary_octets_with_split_rev(x, p) ==
    LET octets == to_be_bytes(x)
        split_bit == p \div 8
        split_offset == (8 - (p % 8)) % 8
        strs == SplitLoop(octets, 0, split_bit, split_offset)
    IN  IF strs.panic THEN Panic ELSE Ok(Join(strs.val, <<" ">>))

binary_octets_with_split(x, p) ==
    LET octets == to_be_bytes(x)
        split_bit == p \div 8
        split_offset == p % 8
        strs == SplitLoop(octets, 0, split_bit, split_offset)
    IN  IF strs.panic THEN Panic ELSE Ok(Join(strs.val, <<" ">>))

\* mutant: 127 falls into the Class A range
ClassOf_127(o1) ==
    IF o1 = 0 THEN "Address with 0.x (reserved)"
    ELSE IF o1 >= 1 /\ o1 <= 127 THEN "Class A"
    ELSE IF o1 >= 128 /\ o1 <= 191 THEN "Class B"
    ELSE IF o1 >= 192 /\ o1 <= 223 THEN "Class C"
    ELSE IF o1 >= 224 /\ o1 <= 239 THEN "Class D (multicast)"
    ELSE "Class E (reserved)"

\* the class label: match on the first octet
ClassOf(o1) ==
    IF o1 = 0 THEN "Address with 0.x (reserved)"
    ELSE IF o1 >= 1 /\ o1 <= 126 THEN "Class A"
    ELSE IF o1 = 127 THEN "Loopback"
    ELSE IF o1 >= 128 /\ o1 <= 191 THEN "Class B"
    ELSE IF o1 >= 192 /\ o1 <= 223 THEN "Class C"
    ELSE IF o1 >= 224 /\ o1 <= 239 THEN "Class D (multicast)"
    ELSE "Class E (reserved)"

\* mutant: the range 16..31 without its upper end
IsPrivate_excl(o) ==
    IF o[1] = 10 THEN TRUE
    ELSE IF o[1] = 172 /\ (16 <= o[2] /\ o[2] < 31) THEN TRUE
    ELSE IF o[1] = 192 /\ o[2] = 168 THEN TRUE
    ELSE FALSE

\* the private flag: match on the four octets
IsPrivate(o) ==
    IF o[1] = 10 THEN TRUE
    ELSE IF o[1] = 172 /\ (16 <= o[2] /\ o[2] <= 31) THEN TRUE
    ELSE IF o[1] = 192 /\ o[2] = 168 THEN TRUE
    ELSE FALSE

detect_class_and_priv(addr) == <<ClassOf(addr[1]), IsPrivate(addr)>>

\* mutant: the power is computed in 32 bits
HostsWide_u32(host_bits) ==
    LET sh == ShlChecked(NatToBits(1, 32), host_bits, overflow_checks)
    IN  IF sh.panic THEN Panic
        ELSE LET d == SubChecked(sh.val, NatToBits(2, 32), overflow_checks)
             IN  IF d.panic THEN Panic ELSE Ok(ZeroExtend(d.val, 64))

\* ((1u128 << host_bits) - 2) as i64
HostsWide(host_bits) ==
    LET sh == ShlChecked(NatToBits(1, 128), host_bits, overflow_checks)
    IN  IF sh.panic THEN Panic
        ELSE LET d == SubChecked(sh.val, NatToBits(2, 128), overflow_checks)
             IN  IF d.panic THEN Panic ELSE Ok(Truncate(d.val, 64))

\* let hosts_net: i64 = match prefix { ... }
HostsNet(p) ==
    IF p = 31 THEN Ok(NatToBits(2, 64))
    ELSE IF p = 32 THEN Ok(NatToBits(1, 64))
    ELSE LET host_bits == SubU8(32, p, overflow_checks)
         IN  IF host_bits.panic THEN Panic
             ELSE IF host_bits.val = 0 THEN Ok(NatToBits(1, 64))
             ELSE HostsWide(host_bits.val)

\* mutant: only /32 keeps the network address
HostMin_off(net, p) ==
    IF p > 31 THEN Ok(net) ELSE AddChecked(net, NatToBits(1, 32), overflow_checks)

\* let host_min = if prefix >= 31 { network } else { network + 1 };
HostMin(net, p) ==
    IF p >= 31 THEN Ok(net) ELSE AddChecked(net, NatToBits(1, 32), overflow_checks)

\* mutant: only /32 keeps the broadcast address
HostMax_off(bc, p) ==
    IF p >= 32 THEN Ok(bc) ELSE SubChecked(bc, NatToBits(1, 32), overflow_checks)

\* let host_max = if prefix >= 31 { broadcast } else { broadcast - 1 };
HostMax(bc, p) ==
    IF p >= 31 THEN Ok(bc) ELSE SubChecked(bc, NatToBits(1, 32), overflow_checks)

(***************************************************************************)
(* Library calls of main: the argument parser and the two from_str.        *)
(***************************************************************************)
HelpFlags == {<<"-", "-", "h", "e", "l", "p">>, <<"-", "h">>}
VersionFlags == {<<"-", "-", "v", "e", "r", "s", "i", "o", "n">>, <<"-", "V">>}

RECURSIVE ClapScan(_, _, _)
\* the derived parser of Args over the arguments from index i on; got is the
\* sequence of positional values taken so far (Args has the one field input)
ClapScan(args, i, got) ==
    IF i > Len(args)
    THEN IF Len(got) = 0 THEN [kind |-> "usage_error", input |-> <<>>]
         ELSE [kind |-> "input", input |-> got[1]]
    ELSE LET a == args[i]
         IN  IF a \in HelpFlags THEN [kind |-> "help", input |-> <<>>]
             ELSE IF a \in VersionFlags THEN [kind |-> "version", input |-> <<>>]
             ELSE IF Len(a) > 1 /\ a[1] = "-" THEN [kind |-> "usage_error", input |-> <<>>]
             ELSE IF Len(got) > 0 THEN [kind |-> "usage_error", input |-> <<>>]
             ELSE ClapScan(args, i + 1, <<a>>)

\* Args::parse()
ArgsParse(args) == ClapScan(args, 1, <<>>)

RECURSIVE AccU8(_, _)
\* the digit loop of u8::from_str: checked acc * 10 + digit
AccU8(digits, acc) ==
    IF Len(digits) = 0 THEN [ok |-> TRUE, val |-> acc]
    ELSE IF ~IsDigit(digits[1]) THEN [ok |-> FALSE, val |-> 0]
    ELSE LET n == acc * 10 + DigitVal(digits[1])
         IN  IF n > 255 THEN [ok |-> FALSE, val |-> 0]
             ELSE AccU8(Tail(digits), n)

\* str::parse::<u8>(): an optional "+", then one or more decimal digits
ParseU8(s) ==
    IF Len(s) = 0 THEN [ok |-> FALSE, val |-> 0]
    ELSE IF Len(s) = 1 /\ s[1] \in {"+", "-"} THEN [ok |-> FALSE, val |-> 0]
    ELSE IF s[1] = "+" THEN AccU8(Tail(s), 0)
    ELSE AccU8(s, 0)

\* one octet of Ipv4Addr::from_str: one to three decimal digits, at most 255,
\* no leading zero on a number of more than one digit
ReadOctet(g) ==
    IF Len(g) = 0 \/ Len(g) > 3 THEN [ok |-> FALSE, val |-> 0]
    ELSE IF \E i \in 1..Len(g) : ~IsDigit(g[i]) THEN [ok |-> FALSE, val |-> 0]
    ELSE IF g[1] = "0" /\ Len(g) > 1 THEN [ok |-> FALSE, val |-> 0]
    ELSE AccU8(g, 0)

\* Ipv4Addr::from_str: exactly four octets separated by "."
Ipv4FromStr(s) ==
    LET groups == Split(s, ".")
    IN  IF Len(groups) # 4 THEN [ok |-> FALSE, val |-> <<>>]
        ELSE IF \E k \in 1..4 : ~ReadOctet(groups[k]).ok THEN [ok |-> FALSE, val |-> <<>>]
        ELSE [ok |-> TRUE, val |-> [k \in 1..4 |-> ReadOctet(groups[k]).val]]

\* mutant: 32 itself is rejected
PrefixInRange_lt(p) == p < 32

\* mutant: 33 is let through
PrefixInRange_33(p) == p <= 33

\* Ok(p) if p <= 32
PrefixInRange(p) == p <= 32

(***************************************************************************)
(* The explored command lines.                                             *)
(***************************************************************************)
\* addresses tried with every prefix text
SweepAddrs ==
    { <<0, 0, 0, 0>>, <<255, 255, 255, 255>>, <<192, 168, 1, 10>>, <<10, 0, 0, 0>>,
      <<8, 8, 8, 8>>, <<172, 16, 254, 1>>, <<170, 85, 170, 85>>, <<85, 170, 85, 170>>,
      <<127, 0, 0, 1>>, <<255, 255, 255, 254>>, <<128, 0, 0, 1>>, <<1, 2, 3, 4>> }

\* every first octet, with two different tails
ClassAddrs ==
    { <<a, t[1], t[2], t[3]>> : a \in 0..255, t \in {<<0, 0, 0>>, <<168, 31, 255>>} }

\* around the borders of the three private ranges
PrivAddrs ==
    { <<a, b, t[1], t[2]>> :
        a \in {9, 10, 11, 171, 172, 173, 191, 192, 193},
        b \in {0, 15, 16, 17, 31, 32, 167, 168, 169, 255},
        t \in {<<0, 0>>, <<255, 255>>} }

\* address parts that Ipv4Addr::from_str rejects
BadAddrTexts ==
    { <<"1", ".", "2", ".", "3", ".", "9", "9", "9">>,
      <<"1", ".", "2", ".", "3">>,
      <<"1", ".", "2", ".", "3", ".", "4", ".", "5">>,
      <<"0", "1", ".", "2", ".", "3", ".", "4">>,
      <<"1", ".", "2", ".", "3", ".">>,
      <<"1", ".", ".", "3", ".", "4">>,
      <<"1", ".", "2", ".", "x", ".", "4">>,
      <<"2", "5", "6", ".", "0", ".", "0", ".", "1">>,
      <<>> }

\* prefix parts: the decimal numbers 0..MaxPrefixText and some other texts
PrefixTexts ==
    { Dec(n) : n \in 0..MaxPrefixText } \cup
    { <<"-", "1">>, <<"+", "2", "4">>, <<"0", "2", "4">>, <<"0", "0">>, <<>>, <<"x">>,
      <<"+">>, <<"2", "5", "6">>, <<"3", "0", "0">>, <<"2", " ">> }

Slash(a, p) == a \o <<"/">> \o p

Inputs ==
    { Slash(DisplayIpv4(a), p) : a \in SweepAddrs, p \in PrefixTexts }
    \cup { Slash(DisplayIpv4(a), Dec(20)) : a \in ClassAddrs }
    \cup { Slash(DisplayIpv4(a), Dec(12)) : a \in PrivAddrs }
    \cup { Slash(a, p) : a \in BadAddrTexts, p \in {Dec(24), Dec(33), <<>>} }
    \cup { DisplayIpv4(<<1, 2, 3, 4>>), <<>>, <<"/">>,
           Slash(Slash(DisplayIpv4(<<1, 2, 3, 4>>), Dec(24)), Dec(1)),
           Slash(DisplayIpv4(<<1, 2, 3, 4>>), Slash(<<>>, Dec(24))) }

\* arguments combined into command lines of two or more arguments
SmallArgs ==
    { <<"-", "-", "h", "e", "l", "p">>, <<"-", "-", "x">>,
      Slash(DisplayIpv4(<<1, 2, 3, 4>>), Dec(24)), DisplayIpv4(<<1, 2, 3, 4>>) }

CommandLines ==
    { <<>> }
    \cup { <<a>> : a \in Inputs \cup HelpFlags \cup VersionFlags \cup SmallArgs }
    \cup UNION { [1..n -> SmallArgs] : n \in 2..MaxArgs }

(***************************************************************************)
(* One run of main.                                                        *)
(***************************************************************************)
Init ==
    /\ argv \in CommandLines
    /\ overflow_checks \in BOOLEAN
    /\ pc = "start"
    /\ input = <<>> /\ parts = <<>> /\ ip = <<>> /\ prefix = 0
    /\ ip_u = <<>> /\ mask = <<>> /\ wildcard = <<>> /\ network = <<>> /\ broadcast = <<>>
    /\ hosts_net = <<>> /\ host_min = <<>> /\ host_max = <<>>
    /\ class = "" /\ is_private = FALSE
    /\ bins = <<>>
    /\ stdout = <<>> /\ stderr = <<>> /\ exit_code = 0

\* std::process::exit(code) after eprintln!(msg)
ExitWithError(msg, code) ==
    /\ pc' = "exited"
    /\ stderr' = Append(stderr, msg)
    /\ exit_code' = code
    /\ UNCHANGED stdout

\* a panic: the message goes to the error stream, the status is 101
PanicExit == ExitWithError("panicked", 101)

\* line 72: let args = Args::parse();
ParseArgs ==
    /\ pc = "start"
    /\ LET r == ArgsParse(argv)
       IN  IF r.kind = "input"
           THEN /\ input' = r.input
                /\ pc' = "split"
                /\ UNCHANGED io
           ELSE IF r.kind = "usage_error"
           THEN /\ ExitWithError("error: usage", 2)
                /\ UNCHANGED input
           ELSE /\ pc' = "exited"
                /\ stdout' = Append(stdout, <<r.kind>>)
                /\ exit_code' = 0
                /\ UNCHANGED <<stderr, input>>
    /\ UNCHANGED <<env, parts, ip, prefix, nets, hosts, classes, bins>>

\* lines 73-77: split on '/', exactly two parts
CheckFormat ==
    /\ pc = "split"
    /\ LET ps == Split(input, "/")
       IN  /\ parts' = ps
           /\ IF Len(ps) # 2
              THEN ExitWithError("Invalid Format. Use: ipcalc x.x.x.x/(0-32)", 1)
              ELSE pc' = "parse_ip" /\ UNCHANGED io
    /\ UNCHANGED <<env, input, ip, prefix, nets, hosts, classes, bins>>

\* lines 78-84: the address part
ParseIp ==
    /\ pc = "parse_ip"
    /\ LET r == Ipv4FromStr(parts[1])
       IN  IF r.ok
           THEN ip' = r.val /\ pc' = "parse_prefix" /\ UNCHANGED io
           ELSE ExitWithError("Invalid IP", 1) /\ UNCHANGED ip
    /\ UNCHANGED <<env, input, parts, prefix, nets, hosts, classes, bins>>

\* lines 85-91: the prefix part
ParsePrefix ==
    /\ pc = "parse_prefix"
    /\ LET r == ParseU8(parts[2])
       IN  IF r.ok /\ PrefixInRange(r.val)
           THEN prefix' = r.val /\ pc' = "net" /\ UNCHANGED io
           ELSE ExitWithError("Invalid prefix (0-32)", 1) /\ UNCHANGED prefix
    /\ UNCHANGED <<env, input, parts, ip, nets, hosts, classes, bins>>

\* lines 93-97: ip_u, mask, wildcard, network, broadcast
ComputeNet ==
    /\ pc = "net"
    /\ LET u == ipv4_to_u32(ip)
           m == mask_from_prefix(prefix)
       IN  IF m.panic
           THEN PanicExit /\ UNCHANGED nets
           ELSE LET w == wildcard_from_mask(m.val)
                    n == AndBits(u, m.val)
                    b == OrBits(n, w)
                IN  /\ ip_u' = u
                    /\ mask' = m.val
                    /\ wildcard' = w
                    /\ network' = n
                    /\ broadcast' = b
                    /\ pc' = "hosts_net"
                    /\ UNCHANGED io
    /\ UNCHANGED <<env, parsed, hosts, classes, bins>>

\* lines 99-110: hosts_net
CountHosts ==
    /\ pc = "hosts_net"
    /\ LET h == HostsNet(prefix)
       IN  IF h.panic
           THEN PanicExit /\ UNCHANGED hosts_net
           ELSE hosts_net' = h.val /\ pc' = "host_range" /\ UNCHANGED io
    /\ UNCHANGED <<env, parsed, nets, host_min, host_max, classes, bins>>

\* lines 112-113: host_min, host_max
HostRange ==
    /\ pc = "host_range"
    /\ LET lo == HostMin(network, prefix)
           hi == HostMax(broadcast, prefix)
       IN  IF lo.panic \/ hi.panic
           THEN PanicExit /\ UNCHANGED <<host_min, host_max>>
           ELSE /\ host_min' = lo.val
                /\ host_max' = hi.val
                /\ pc' = "classify"
                /\ UNCHANGED io
    /\ UNCHANGED <<env, parsed, nets, hosts_net, classes, bins>>

\* line 115: let (class, is_private) = detect_class_and_priv(u32_to_ipv4(ip_u));
Classify ==
    /\ pc = "classify"
    /\ LET r == detect_class_and_priv(u32_to_ipv4(ip_u))
       IN  class' = r[1] /\ is_private' = r[2]
    /\ pc' = "format"
    /\ UNCHANGED <<env, parsed, nets, hosts, bins, io>>

\* lines 121-127: the binary renderings
FormatBinary ==
    /\ pc = "format"
    /\ LET i == binary_octets_with_split(ip_u, prefix)
           m == binary_octets_with_split(mask, prefix)
           n == binary_octets_with_split(network, prefix)
       IN  IF i.panic \/ m.panic \/ n.panic
           THEN PanicExit /\ UNCHANGED bins
           ELSE /\ bins' = [ ip_bin |-> i.val,
                             mask_bin |-> m.val,
                             wildcard_bin |-> to_binary(to_be_bytes(wildcard)),
                             network_bin |-> n.val,
                             hostmin_bin |-> to_binary(to_be_bytes(host_min)),
                             hostmax_bin |-> to_binary(to_be_bytes(host_max)),
                             broadcast_bin |-> to_binary(to_be_bytes(broadcast)) ]
                /\ pc' = "print"
                /\ UNCHANGED io
    /\ UNCHANGED <<env, parsed, nets, hosts, classes>>

\* lines 129-187: the lines of the report (colours left out)
Report ==
    << <<>>,
       <<"Address:", DisplayIpv4(u32_to_ipv4(ip_u)), bins.ip_bin>>,
       <<"Netmask:", DisplayIpv4(u32_to_ipv4(mask)), Dec(prefix), bins.mask_bin>>,
       <<"Wildcard:", DisplayIpv4(u32_to_ipv4(wildcard)), bins.wildcard_bin>>,
       <<>>,
       <<"Network:", Slash(DisplayIpv4(u32_to_ipv4(network)), Dec(prefix)), bins.network_bin>>,
       <<"HostMin:", DisplayIpv4(u32_to_ipv4(host_min)), bins.hostmin_bin>>,
       <<"HostMax:", DisplayIpv4(u32_to_ipv4(host_max)), bins.hostmax_bin>>,
       <<"Broadcast:", DisplayIpv4(u32_to_ipv4(broadcast)), bins.broadcast_bin>>,
       <<>>,
       <<"Hosts/Net:", DisplayI64(hosts_net),
         IF is_private THEN <<class, ", Private Internet">> ELSE <<class>> >>,
       <<>> >>

\* lines 129-188: print the report and return from main
PrintReport ==
    /\ pc = "print"
    /\ stdout' = stdout \o Report
    /\ pc' = "exited"
    /\ exit_code' = 0
    /\ UNCHANGED <<env, parsed, nets, hosts, classes, bins, stderr>>

Next ==
    \/ ParseArgs
    \/ CheckFormat
    \/ ParseIp
    \/ ParsePrefix
    \/ ComputeNet
    \/ CountHosts
    \/ HostRange
    \/ Classify
    \/ FormatBinary
    \/ PrintReport

Spec == Init /\ [][Next]_vars

(***************************************************************************)
(* Properties.                                                             *)
(***************************************************************************)
\* how far the run has come (each local is set once, by its own step)
NetComputed == mask # <<>>
HostsComputed == hosts_net # <<>>
RangeComputed == host_min # <<>>
Classified == class # ""
Formatted == bins # <<>>
Exited == pc = "exited"

AllOnes(v) == \A i \in 1..Len(v) : v[i] = 1

\* b = a + 1 without overflow, bit by bit: the trailing ones of a become
\* zeros, the zero above them becomes one, the rest is unchanged
IsSucc(a, b) ==
    /\ Len(a) = Len(b)
    /\ \E k \in 1..Len(a) :
         /\ a[k] = 0 /\ b[k] = 1
         /\ \A j \in (k + 1)..Len(a) : a[j] = 1 /\ b[j] = 0
         /\ \A j \in 1..(k - 1) : a[j] = b[j]

\* a <= b as unsigned values of the same width
Leq(a, b) ==
    \/ a = b
    \/ \E i \in 1..Len(a) : a[i] < b[i] /\ \A j \in 1..(i - 1) : a[j] = b[j]

\* C1: for every prefix P in 0..32 the mask is P one-bits followed by 32-P
\* zero-bits (P = 0: all zero, P = 32: all one), and the wildcard is its
\* bit-by-bit complement.
C1_MaskLeadingOnes ==
    NetComputed =>
        /\ prefix \in 0..32
        /\ Len(mask) = 32 /\ Len(wildcard) = 32
        /\ \A i \in 1..32 : mask[i] = IF i <= prefix THEN 1 ELSE 0
        /\ \A i \in 1..32 : wildcard[i] = 1 - mask[i]

\* the prefix-0 case: the mask is all zero and the wildcard all one
C1_Witness == NetComputed /\ prefix = 0 /\ IsZero(mask) /\ AllOnes(wildcard)

\* C2: Network = address AND mask, Broadcast = Network OR wildcard, and the
\* host range is Network+1 .. Broadcast-1 for P < 31, Network .. Broadcast
\* for P = 31, and the address itself four times over for P = 32.
C2_HostRange ==
    RangeComputed =>
        /\ \A i \in 1..32 : network[i] = IF i <= prefix THEN ip_u[i] ELSE 0
        /\ \A i \in 1..32 : broadcast[i] = IF i <= prefix THEN ip_u[i] ELSE 1
        /\ prefix < 31 => IsSucc(network, host_min) /\ IsSucc(host_max, broadcast)
        /\ prefix = 31 => host_min = network /\ host_max = broadcast
        /\ prefix = 32 => /\ host_min = ip_u /\ host_max = ip_u
                          /\ network = ip_u /\ broadcast = ip_u

\* a /31 whose two endpoints are the network and the broadcast address
C2_Witness ==
    /\ RangeComputed /\ prefix = 31
    /\ host_min = network /\ host_max = broadcast /\ IsSucc(host_min, host_max)

\* the bits of 2^n - 2 as an i64: bits n-1 .. 1 set, counted from bit 0
PowMinus2(n) == [i \in 1..64 |-> IF 64 - i >= 1 /\ 64 - i <= n - 1 THEN 1 ELSE 0]

\* C3: hosts_net is 2^(32-P) - 2 for P <= 30, 2 for P = 31 and 1 for P = 32;
\* for P = 0 it is 4294967294 and is printed so.
C3_HostCount ==
    /\ HostsComputed =>
        /\ prefix <= 30 => hosts_net = PowMinus2(32 - prefix)
        /\ prefix = 31 => hosts_net = [i \in 1..64 |-> IF i = 63 THEN 1 ELSE 0]
        /\ prefix = 32 => hosts_net = [i \in 1..64 |-> IF i = 64 THEN 1 ELSE 0]
    /\ (Exited /\ Len(stdout) = 12 /\ prefix = 0) =>
        stdout[11][2] = <<"4", "2", "9", "4", "9", "6", "7", "2", "9", "4">>

\* a /0 run that has printed its host count
C3_Witness ==
    /\ Exited /\ exit_code = 0 /\ Len(stdout) = 12 /\ prefix = 0
    /\ hosts_net = PowMinus2(32)

\* the class label of each first octet
LabelOf(o) ==
    CASE o = 0 -> "Address with 0.x (reserved)"
      [] o \in 1..126 -> "Class A"
      [] o = 127 -> "Loopback"
      [] o \in 128..191 -> "Class B"
      [] o \in 192..223 -> "Class C"
      [] o \in 224..239 -> "Class D (multicast)"
      [] o \in 240..255 -> "Class E (reserved)"

\* C4: the class label is a function of the first octet of the address
\* alone, with the borders 0 | 1..126 | 127 | 128..191 | 192..223 | 224..239
\* | 240..255.
C4_ClassByFirstOctet ==
    Classified => ip[1] \in 0..255 /\ class = LabelOf(ip[1])

\* a loopback address whose other octets are not zero
C4_Witness ==
    Classified /\ ip = <<127, 168, 31, 255>> /\ class = "Loopback"

\* the first n bits of the address are those of the network net
InCidr(addr, net, n) == \A i \in 1..n : addr[i] = from_be_bytes(net)[i]

\* C5: the private flag is true exactly for the addresses of 10.0.0.0/8,
\* 172.16.0.0/12 and 192.168.0.0/16, whatever the prefix.
C5_PrivateRanges ==
    Classified =>
        /\ is_private <=> \/ InCidr(ip_u, <<10, 0, 0, 0>>, 8)
                          \/ InCidr(ip_u, <<172, 16, 0, 0>>, 12)
                          \/ InCidr(ip_u, <<192, 168, 0, 0>>, 16)
        /\ ip[1] = 172 => (is_private <=> (16 <= ip[2] /\ ip[2] <= 31))
        /\ ip[1] = 192 => (is_private <=> ip[2] = 168)

\* 172.31.x.x, the upper border of 172.16.0.0/12, is private
C5_Witness ==
    Classified /\ ip[1] = 172 /\ ip[2] = 31 /\ is_private

BitChars(x) == [i \in 1..Len(x) |-> IF x[i] = 1 THEN "1" ELSE "0"]

\* the rendering str of the value x: its tokens, their lengths, their sum
SplitRendering(x, str) ==
    LET toks == Split(str, " ")
        q == prefix \div 8
        r == prefix % 8
    IN  /\ Len(toks) = IF r # 0 THEN 5 ELSE 4
        /\ \A t \in 1..Len(toks) :
             Len(toks[t]) = IF r # 0 /\ t = q + 1 THEN r
                            ELSE IF r # 0 /\ t = q + 2 THEN 8 - r
                            ELSE 8
        /\ Join(toks, <<>>) = BitChars(x)

\* C6: binary_octets_with_split gives the octets in big-endian order as
\* space-separated tokens, five when P % 8 # 0 (octet P / 8 split into
\* P % 8 and 8 - P % 8 bits) and four of 8 bits otherwise, which put
\* together are the 32 bits of the value.
C6_BinarySplit ==
    Formatted =>
        /\ SplitRendering(ip_u, bins.ip_bin)
        /\ SplitRendering(mask, bins.mask_bin)
        /\ SplitRendering(network, bins.network_bin)

\* a /20: the third octet of the address is rendered as 4 + 4 bits
C6_Witness ==
    /\ Formatted /\ prefix = 20 /\ ip = <<192, 168, 1, 10>>
    /\ Len(Split(bins.ip_bin, " ")) = 5
    /\ Split(bins.ip_bin, " ")[3] = <<"0", "0", "0", "0">>
    /\ Split(bins.ip_bin, " ")[4] = <<"0", "0", "0", "1">>

\* the texts Display gives the octets 0..255
DecOctets == { Dec(n) : n \in 0..255 }

\* four decimal octets 0..255 separated by dots
ValidAddrText(s) ==
    LET pieces == Split(s, ".")
    IN  Len(pieces) = 4 /\ \A k \in 1..4 : pieces[k] \in DecOctets

\* a decimal integer 0..32: an optional "+", any leading zeros, the number
ValidPrefixText(s) ==
    \E n \in 0..32, z \in 0..Len(s), sign \in {<<>>, <<"+">>} :
        s = sign \o [i \in 1..z |-> "0"] \o Dec(n)

\* address/prefix
ValidInput(s) ==
    LET ps == Split(s, "/")
    IN  Len(ps) = 2 /\ ValidAddrText(ps[1]) /\ ValidPrefixText(ps[2])

\* the twelve lines of the report, by their labels
IsReport(out) ==
    /\ Len(out) = 12
    /\ out[1] = <<>> /\ out[5] = <<>> /\ out[10] = <<>> /\ out[12] = <<>>
    /\ out[2][1] = "Address:" /\ out[3][1] = "Netmask:" /\ out[4][1] = "Wildcard:"
    /\ out[6][1] = "Network:" /\ out[7][1] = "HostMin:" /\ out[8][1] = "HostMax:"
    /\ out[9][1] = "Broadcast:" /\ out[11][1] = "Hosts/Net:"

\* the two outcomes
ErrorOutcome == exit_code = 1 /\ Len(stderr) = 1 /\ stdout = <<>>
ReportOutcome == exit_code = 0 /\ stderr = <<>> /\ IsReport(stdout)

\* the command line is one argument that does not begin with "-"
OneInput == Len(argv) = 1 /\ (Len(argv[1]) = 0 \/ argv[1][1] # "-")

\* C7 as stated: every invocation of main ends in one of the two outcomes,
\* the error message and status 1 or the full report and status 0.
C7_EveryInvocation == Exited => ErrorOutcome \/ ReportOutcome

\* C7 as amended: every invocation of main with exactly one command-line
\* argument, not beginning with "-", ends in exactly one of the two
\* outcomes: the error outcome if the input is not
\* address/prefix with a valid address and a prefix in 0..32, the report
\* outcome otherwise; and nothing is written before the run ends.
C7_OneInputOutcome ==
    /\ ~Exited => stdout = <<>> /\ stderr = <<>>
    /\ (Exited /\ OneInput) =>
           IF ValidInput(argv[1]) THEN ReportOutcome ELSE ErrorOutcome

\* "1.2.3.4/33" ended with the error outcome
C7_Witness ==
    /\ Exited /\ OneInput /\ ErrorOutcome
    /\ argv[1] = <<"1", ".", "2", ".", "3", ".", "4", "/", "3", "3">>
    /\ stderr = <<"Invalid prefix (0-32)">>

\* C8: once validation has passed no step fails: the shift amount of
\* mask_from_prefix is in 0..31, Network+1 and Broadcast-1 stay in range
\* for P < 31, the host count subtraction does not go negative, the split
\* offset is within the 8 characters, and so the run never panics.
C8_Total ==
    /\ exit_code # 101
    /\ \A k \in 1..Len(stderr) : stderr[k] # "panicked"
    /\ pc = "net" => prefix \in 0..32 /\ (prefix # 0 => 32 - prefix \in 0..31)
    /\ (pc = "hosts_net" /\ prefix \notin {31, 32}) => 32 - prefix \in 2..127
    /\ (pc = "host_range" /\ prefix < 31) => ~AllOnes(network) /\ ~IsZero(broadcast)
    /\ pc = "format" => prefix % 8 <= 8

\* 255.255.255.255/0 ran through: the widest network, from the last address
C8_Witness ==
    /\ Exited /\ exit_code = 0 /\ prefix = 0 /\ AllOnes(ip_u)
    /\ IsZero(network) /\ AllOnes(broadcast) /\ IsSucc(network, host_min)

\* C9: Network OR Wildcard is Broadcast, and no bit is set in both Network
\* and Wildcard.
C9_Partition ==
    NetComputed =>
        \A i \in 1..32 :
            /\ broadcast[i] = 1 <=> (network[i] = 1 \/ wildcard[i] = 1)
            /\ ~(network[i] = 1 /\ wildcard[i] = 1)

\* a /12 of an address with bits set on both sides of the prefix
C9_Witness ==
    /\ NetComputed /\ prefix = 12 /\ ip = <<172, 31, 255, 255>>
    /\ ~IsZero(network) /\ ~IsZero(wildcard) /\ broadcast = ip_u

\* C10: the host count is the size of the host range, which lies within
\* the network: hosts_net = host_max - host_min + 1 and
\* Network <= host_min <= host_max <= Broadcast.
C10_CountMatchesRange ==
    RangeComputed =>
        /\ AddFrom(ZeroExtend(host_min, 64), hosts_net, 0).bits
             = AddFrom(ZeroExtend(host_max, 64), NatToBits(1, 64), 0).bits
        /\ Leq(network, host_min) /\ Leq(host_min, host_max) /\ Leq(host_max, broadcast)

\* a /30: two hosts strictly between network and broadcast
C10_Witness ==
    /\ RangeComputed /\ prefix = 30
    /\ hosts_net = NatToBits(2, 64)
    /\ host_min # network /\ host_max # broadcast /\ IsSucc(host_min, host_max)

====
